---- MODULE Spec2Model ----
(***************************************************************************)
(* Snake-Client: the client-side turn synchronisation of src/main.rs and   *)
(* the field / renderer / input poller of src/game.rs.                     *)
(*                                                                         *)
(* The terminal is modelled as a grid of cells (glyph, colour), a cursor   *)
(* and a current foreground colour; the keyboard as the sequence of raw    *)
(* inputs buffered by the asynchronous reader; the server as the producer  *)
(* of the next line the client's blocking receive will read.               *)
(***************************************************************************)
EXTENDS Integers, Sequences, FiniteSets, TLC

VARIABLES
    pc,         \* position of main()
    reason,     \* why main() ended ("none" while it runs)
    id,         \* Game.id
    snakes,     \* Game.snakes
    direction,  \* Game.direction
    food,       \* Game.food
    field,      \* Game.field
    killed,     \* Game.killed
    stdin,      \* Game.stdin: raw inputs buffered and not yet read
    stdout,     \* Game.stdout: the terminal [screen, cur, fg]
    net,        \* the line the next receive() will read, NoMsg when none
    turn,       \* local `turn` of main(): the TurnMessage being applied
    prev,       \* result of the last get_last_key_event()
    hist,       \* counters of what main() has done so far
    fw, fh, fout \* arguments and result of a direct init_field call

vars == <<pc, reason, id, snakes, direction, food, field, killed, stdin,
          stdout, net, turn, prev, hist, fw, fh, fout>>

----------------------------------------------------------------------------
(* Bounds of the exploration *)

MaxWaits == 2
MaxTurns == 2
MaxKeys == 1
MaxBuf == 3
MaxPolls == 2
MaxDim == 9
MaxSnakes == 2
MaxSnakeLen == 2
TermCols == 5
TermRows == 5

(* Glyphs: game.rs constants and the literal ' ' *)
BORDER_CHAR == "#"
FOOD_CHAR == "F"
SNAKE_CHAR == "o"
BLANK == " "

\* no line waiting to be read / a line that does not deserialize / Option::None
NoMsg == [type |-> "NoMsg"]
Malformed == [type |-> "Malformed"]
None == [kind |-> "None"]

Pt(x, y) == [x |-> x, y |-> y]

Max(a, b) == IF a > b THEN a ELSE b
Min(a, b) == IF a < b THEN a ELSE b

----------------------------------------------------------------------------
(* Field model *)

Repeat(n, v) == [i \in 1..n |-> v]

init_field_rowbug(width, height) ==
    LET border_line == Repeat(width, BORDER_CHAR)
        inner_line == <<BORDER_CHAR>> \o Repeat(width - 2, BLANK) \o <<BORDER_CHAR>>
    IN  <<border_line>> \o Repeat(height - 1, inner_line) \o <<border_line>>

init_field(width, height) ==
    LET border_line == Repeat(width, BORDER_CHAR)
        inner_line == <<BORDER_CHAR>> \o Repeat(width - 2, BLANK) \o <<BORDER_CHAR>>
    IN  <<border_line>> \o Repeat(height - 2, inner_line) \o <<border_line>>

----------------------------------------------------------------------------
(* Terminal: what the escape sequences written to stdout do *)

Cells == (1..TermCols) \X (1..TermRows)

BlankScreen == [c \in Cells |-> [ch |-> BLANK, fg |-> "Reset"]]

\* the terminal when the game starts; what the shell and the lobby prompt
\* left on it is wiped by the clear::All of draw_field
Term0 == [screen |-> BlankScreen, cur |-> <<1, 1>>, fg |-> "Reset"]

\* clear::All erases the screen and leaves the cursor where it is
ClearAll(t) == [t EXCEPT !.screen = BlankScreen]

\* cursor::Goto(x, y): a zero parameter addresses the first column / row
Goto(t, x, y) ==
    [t EXCEPT !.cur = <<Min(Max(x, 1), TermCols), Min(Max(y, 1), TermRows)>>]

\* color::Fg(c)
Fg(t, c) == [t EXCEPT !.fg = c]

\* a printable character: written at the cursor, cursor one cell right
\* (to the start of the next row after the last column)
\* (tt is t, evaluated once)
Put(t, c) ==
    CHOOSE r \in {[tt EXCEPT !.screen[tt.cur] = [ch |-> c, fg |-> tt.fg],
                             !.cur = IF tt.cur[1] < TermCols
                                     THEN <<tt.cur[1] + 1, tt.cur[2]>>
                                     ELSE <<1, Min(tt.cur[2] + 1, TermRows)>>]
                   : tt \in {t}} : TRUE

\* "\n" in raw mode: one row down, same column
LineFeed(t) ==
    CHOOSE r \in {[tt EXCEPT !.cur = <<tt.cur[1], Min(tt.cur[2] + 1, TermRows)>>]
                   : tt \in {t}} : TRUE

RECURSIVE PutAll(_, _)
PutAll(t, line) ==
    IF line = <<>> THEN t ELSE PutAll(Put(t, Head(line)), Tail(line))

\* the loop of draw_field, from row index i (0-based) on
RECURSIVE draw_rows(_, _, _)
draw_rows(t, fld, i) ==
    IF i >= Len(fld) THEN t
    ELSE draw_rows(LineFeed(Goto(PutAll(t, fld[i + 1]), 1, i + 1)), fld, i + 1)

draw_field(t, fld) ==
    Fg(draw_rows(Fg(Goto(ClearAll(t), 1, 1), "Blue"), fld, 0), "Reset")

draw_food(t, f) ==
    Fg(Put(Fg(Goto(t, f.x, f.y), "Red"), FOOD_CHAR), "Reset")

RECURSIVE PutAt(_, _, _)
PutAt(t, c, snake) ==
    IF snake = <<>> THEN t
    ELSE PutAt(Put(Goto(t, Head(snake).x, Head(snake).y), c), c, Tail(snake))

draw_snake_with_char(t, c, snake, own, fld) ==
    Fg(Goto(PutAt(Fg(t, IF own THEN "Red" ELSE "Yellow"), c, snake),
            0, Len(fld) + 1),
       "Reset")

\* ownership tested against the index counted from one
RECURSIVE draw_snakes_from_offbyone(_, _, _, _, _)
draw_snakes_from_offbyone(t, ss, self, fld, k) ==
    IF k >= Len(ss) THEN t
    ELSE draw_snakes_from_offbyone(
             draw_snake_with_char(t, SNAKE_CHAR, ss[k + 1], self = k + 1, fld),
             ss, self, fld, k + 1)

\* the loops of draw_snakes / clear_snakes, from index k (0-based) on
RECURSIVE draw_snakes_from(_, _, _, _, _)
draw_snakes_from(t, ss, self, fld, k) ==
    IF k >= Len(ss) THEN t
    ELSE draw_snakes_from(
             draw_snake_with_char(t, SNAKE_CHAR, ss[k + 1], self = k, fld),
             ss, self, fld, k + 1)

draw_snakes(t, ss, self, fld) == draw_snakes_from(t, ss, self, fld, 0)

RECURSIVE clear_snakes_from(_, _, _, _)
clear_snakes_from(t, ss, fld, k) ==
    IF k >= Len(ss) THEN t
    ELSE clear_snakes_from(
             draw_snake_with_char(t, BLANK, ss[k + 1], FALSE, fld),
             ss, fld, k + 1)

\* the erase loop started at the second snake
clear_snakes_skipfirst(t, ss, fld) == clear_snakes_from(t, ss, fld, 1)

clear_snakes(t, ss, fld) == clear_snakes_from(t, ss, fld, 0)

\* println!("You lose") on the raw terminal
YouLose == <<"Y", "o", "u", " ", "l", "o", "s", "e">>
println(t, text) == LineFeed(PutAll(t, text))

\* Game::update: the new snakes, pushed one by one
RECURSIVE update(_)
update(ss) == IF ss = <<>> THEN <<>> ELSE <<Head(ss)>> \o update(Tail(ss))

----------------------------------------------------------------------------
(* Input poller *)

\* raw inputs: the byte sequences of these keys, and "Bad", bytes that
\* parse_event rejects
KeyNames == {"Up", "Down", "Left", "Right", "q", "Enter", "x"}
RawInputs == KeyNames \cup {"Mouse", "Bad"}

\* termion parse_event: Ok(Event::Key(k)), Ok(Event::Mouse(..)) or Err
parse_event(b) ==
    IF b = "Bad" THEN [ok |-> FALSE]
    ELSE IF b = "Mouse" THEN [ok |-> TRUE, ev |-> [kind |-> "Mouse"]]
    ELSE [ok |-> TRUE, ev |-> [kind |-> "Key", key |-> b]]

\* the first event read is kept
RECURSIVE drain_first(_, _)
drain_first(buf, p) ==
    IF buf = <<>> THEN p
    ELSE LET r == parse_event(Head(buf))
         IN  drain_first(Tail(buf), IF r.ok /\ p = None THEN r.ev ELSE p)

\* the drain loop of get_last_key_event, with `p` the value of prev so far
RECURSIVE drain(_, _)
drain(buf, p) ==
    IF buf = <<>> THEN p
    ELSE LET r == parse_event(Head(buf))
         IN  drain(Tail(buf), IF r.ok THEN r.ev ELSE p)

get_last_key_event(buf) == drain(buf, None)

\* a poll that read no key forgets the direction
handle_input_dir_reset(p, d) ==
    IF p.kind = "Key"
    THEN CASE p.key = "Up" -> "Up"
           [] p.key = "Down" -> "Down"
           [] p.key = "Left" -> "Left"
           [] p.key = "Right" -> "Right"
           [] OTHER -> d
    ELSE "Unkown"

\* the Left and Right arms exchanged
handle_input_dir_swapped(p, d) ==
    IF p.kind = "Key"
    THEN CASE p.key = "Up" -> "Up"
           [] p.key = "Down" -> "Down"
           [] p.key = "Left" -> "Right"
           [] p.key = "Right" -> "Left"
           [] OTHER -> d
    ELSE d

\* the match of handle_input on the polled event
handle_input_dir(p, d) ==
    IF p.kind = "Key"
    THEN CASE p.key = "Up" -> "Up"
           [] p.key = "Down" -> "Down"
           [] p.key = "Left" -> "Left"
           [] p.key = "Right" -> "Right"
           [] OTHER -> d
    ELSE d

\* every character key quits
handle_input_killed_anychar(p, k) ==
    IF p.kind = "Key" /\ p.key \in {"q", "x", "Enter"} THEN TRUE ELSE k

handle_input_killed(p, k) ==
    IF p.kind = "Key" /\ p.key = "q" THEN TRUE ELSE k

\* the match of force_start on the polled event
force_start(p) == p.kind = "Key" /\ p.key = "Enter"

----------------------------------------------------------------------------
(* Messages of the server, as the typed receive() of main.rs reads them *)

EventMsg(e) == [type |-> "Event", event |-> e]
StateMsg(st) == [type |-> "State", state |-> st]
ConfigMsg(i, w, h, ss, f) ==
    [type |-> "Config", id |-> i, width |-> w, height |-> h, snakes |-> ss, food |-> f]
TurnMsg(i, f, ss) == [type |-> "Turn", id |-> i, food |-> f, snakes |-> ss]

GameEvents == {"WaitInLobby", "Start", "NewTurn"}
GameStates == {"Ready", "Playing", "Lost"}

\* sequences over S of length lo..hi
SeqsOf(S, lo, hi) == UNION {[1..n -> S] : n \in lo..hi}

\* protocol runs: one configuration and two turn updates on a 4 x 4 field
Cfgs ==
    {ConfigMsg(0, 4, 4, <<<<Pt(2, 2), Pt(2, 3)>>, <<Pt(3, 2)>>>>, Pt(3, 3))}
Turns ==
    {TurnMsg(0, Pt(3, 3), <<<<Pt(3, 2)>>>>),
     TurnMsg(1, Pt(2, 2), <<<<Pt(2, 3), Pt(3, 3)>>, <<Pt(3, 2)>>>>)}
Keys == {"Up", "q", "Enter", "Bad"}

\* drawing runs: configurations with disjoint, overlapping, empty and
\* border-lying snakes and food, and every turn update over two cells
DrawCfgs ==
    {ConfigMsg(0, 4, 4, <<<<Pt(2, 2)>>>>, Pt(3, 3)),
     ConfigMsg(1, 4, 4, <<<<Pt(2, 2), Pt(3, 2)>>, <<Pt(3, 2), Pt(3, 3)>>>>, Pt(2, 3)),
     ConfigMsg(0, 4, 4, <<<<Pt(2, 2), Pt(3, 2)>>, <<Pt(3, 2), Pt(2, 3)>>>>, Pt(2, 3)),
     ConfigMsg(0, 5, 3, <<<<Pt(1, 1), Pt(2, 1)>>>>, Pt(5, 2)),
     ConfigMsg(2, 4, 4, <<<<>>, <<Pt(3, 2)>>>>, Pt(2, 2)),
     ConfigMsg(0, 4, 4, <<>>, Pt(2, 2))}
DrawPoints == {Pt(2, 2), Pt(3, 2)}
DrawSnakeSets == SeqsOf(SeqsOf(DrawPoints, 1, MaxSnakeLen), 0, MaxSnakes)
DrawTurns == {TurnMsg(i, f, ss) : i \in {0, 1}, f \in DrawPoints, ss \in DrawSnakeSets}

----------------------------------------------------------------------------
(* Initial state: Game::empty() and main() about to enter the lobby loop *)

\* the session fields a TurnUpdate replaces
Held(i, f, ss) == [id |-> i, food |-> f, snakes |-> ss]
NoHeld == [id |-> 0, food |-> Pt(0, 0), snakes |-> <<>>]

\* drained: the raw inputs read by a direct call of the poller;
\* erased: the snake set handed to the last clear_snakes;
\* held: id, food and snakes of the session when this turn's TurnUpdate was
\* read; lastNet: the last network operation; typed: the keys typed before
\* the first poll of a typing run
Hist0 == [wait |-> 0, vote |-> 0, start |-> 0, newturn |-> 0, dir |-> 0,
          recv |-> 0, poll |-> 0, draw |-> 0, lastVote |-> FALSE,
          drained |-> <<>>, erased |-> <<>>, held |-> NoHeld,
          lastNet |-> "none", typed |-> <<>>]

\* what a line read from the server was
NetKind(m) == IF m.type = "Event" THEN m.event ELSE m.type

\* Game::empty(), but for the keyboard buffer
GameEmpty ==
    /\ id = 0
    /\ snakes = <<>>
    /\ direction = "Right"
    /\ food = Pt(0, 0)
    /\ field = <<>>
    /\ killed = FALSE
    /\ stdout = Term0

\* main() about to read its first lobby event
MainStart ==
    /\ pc = "lobby"
    /\ reason = "none"
    /\ net = NoMsg
    /\ turn = NoMsg
    /\ prev = None
    /\ hist = Hist0

Init ==
    /\ GameEmpty
    /\ MainStart
    /\ stdin = <<>>
    /\ fw = 0 /\ fh = 0 /\ fout = <<>>

session == <<id, snakes, direction, food, field, killed>>
fvars == <<fw, fh, fout>>

\* the end of main() recorded, but the loop carries on
Terminate_noexit(r) == pc' = pc /\ reason' = r

Terminate(r) == pc' = "terminated" /\ reason' = r

\* receive(): the line is consumed
Consume(n) ==
    /\ net' = NoMsg
    /\ hist' = [hist EXCEPT !.recv = @ + 1, ![n] = @ + 1, !.lastNet = NetKind(net)]
ConsumeOnly ==
    /\ net' = NoMsg
    /\ hist' = [hist EXCEPT !.recv = @ + 1, !.lastNet = NetKind(net)]

----------------------------------------------------------------------------
(* Environment *)

\* the server writes the line the client is blocked on (or will block on):
\* it deserializes to the type the client asks for, or it does not
ServerSend(cfgs, turns, waits, nturns) ==
    /\ net = NoMsg
    /\ \/ /\ pc = "lobby"
          /\ \E e \in GameEvents :
                /\ e = "WaitInLobby" => hist.wait < waits
                /\ net' = EventMsg(e)
       \/ /\ pc = "config"
          /\ net' \in cfgs
       \/ /\ pc = "turn"
          /\ \E e \in GameEvents :
                /\ e = "NewTurn" => hist.newturn < nturns
                /\ net' = EventMsg(e)
       \/ /\ pc = "update_recv"
          /\ net' \in turns
       \/ /\ pc = "state"
          /\ \E st \in GameStates : net' = StateMsg(st)
       \/ /\ pc \in {"lobby", "config", "turn", "update_recv", "state"}
          /\ net' = Malformed
    /\ UNCHANGED <<pc, reason, session, stdin, stdout, turn, prev, hist, fvars>>

\* the user presses a key: the asynchronous reader buffers it
KeyPress(keys) ==
    /\ pc # "terminated"
    /\ Len(stdin) < MaxKeys
    /\ \E k \in keys : stdin' = Append(stdin, k)
    /\ UNCHANGED <<pc, reason, session, stdout, net, turn, prev, hist, fvars>>

\* the user types ahead of the first poll: every key is buffered, and
\* remembered in hist.typed
TypeKeys(keys) ==
    /\ pc # "terminated"
    /\ hist.poll = 0
    /\ Len(stdin) < MaxBuf
    /\ \E k \in keys :
          /\ stdin' = Append(stdin, k)
          /\ hist' = [hist EXCEPT !.typed = Append(@, k)]
    /\ UNCHANGED <<pc, reason, session, stdout, net, turn, prev, fvars>>

----------------------------------------------------------------------------
(* main(): the lobby loop *)

\* every event that is not Start is treated as a wait
LobbyReceive_lenient ==
    /\ pc = "lobby"
    /\ net # NoMsg
    /\ IF net = Malformed THEN Terminate("TransportError") /\ ConsumeOnly
       ELSE IF net.event = "Start" THEN pc' = "config" /\ reason' = reason /\ ConsumeOnly
       ELSE pc' = "vote" /\ reason' = reason
            /\ (IF net.event = "WaitInLobby" THEN Consume("wait") ELSE ConsumeOnly)
    /\ UNCHANGED <<session, stdin, stdout, turn, prev, fvars>>

LobbyReceive ==
    /\ pc = "lobby"
    /\ net # NoMsg
    /\ IF net = Malformed THEN Terminate("TransportError") /\ ConsumeOnly
       ELSE IF net.event = "Start" THEN pc' = "config" /\ reason' = reason /\ ConsumeOnly
       ELSE IF net.event = "WaitInLobby"
            THEN pc' = "vote" /\ reason' = reason /\ Consume("wait")
       ELSE Terminate("ProtocolError") /\ ConsumeOnly
    /\ UNCHANGED <<session, stdin, stdout, turn, prev, fvars>>

\* the vote is sent only when the user asked for a forced start
LobbyVote_whentrue ==
    /\ pc = "vote"
    /\ prev' = get_last_key_event(stdin)
    /\ stdin' = <<>>
    /\ hist' = IF force_start(prev')
               THEN [hist EXCEPT !.poll = @ + 1, !.vote = @ + 1, !.lastVote = TRUE,
                                 !.lastNet = "Vote"]
               ELSE [hist EXCEPT !.poll = @ + 1]
    /\ pc' = "lobby"
    /\ UNCHANGED <<reason, session, stdout, net, turn, fvars>>

LobbyVote ==
    /\ pc = "vote"
    /\ prev' = get_last_key_event(stdin)
    /\ stdin' = <<>>
    /\ hist' = [hist EXCEPT !.poll = @ + 1, !.vote = @ + 1,
                            !.lastVote = force_start(prev'),
                            !.lastNet = "Vote"]
    /\ pc' = "lobby"
    /\ UNCHANGED <<reason, session, stdout, net, turn, fvars>>

(* main(): configuration and first draw *)

ReceiveConfig ==
    /\ pc = "config"
    /\ net # NoMsg
    /\ ConsumeOnly
    /\ IF net = Malformed
       THEN Terminate("TransportError") /\ UNCHANGED <<id, field, snakes, food>>
       ELSE /\ pc' = "draw_field" /\ reason' = reason
            /\ id' = net.id
            /\ field' = init_field(net.width, net.height)
            /\ snakes' = net.snakes
            /\ food' = net.food
    /\ UNCHANGED <<direction, killed, stdin, stdout, turn, prev, fvars>>

Draw(next, t) ==
    /\ stdout' = t
    /\ pc' = next
    /\ UNCHANGED <<reason, session, stdin, net, turn, prev, fvars>>

InitDrawField ==
    /\ pc = "draw_field"
    /\ hist' = [hist EXCEPT !.draw = @ + 1]
    /\ Draw("draw_food", draw_field(stdout, field))

InitDrawFood ==
    /\ pc = "draw_food"
    /\ hist' = [hist EXCEPT !.draw = @ + 1]
    /\ Draw("draw_snakes", draw_food(stdout, food))

InitDrawSnakes ==
    /\ pc = "draw_snakes"
    /\ hist' = [hist EXCEPT !.draw = @ + 1, !.start = @ + 1]
    /\ Draw("turn", draw_snakes(stdout, snakes, id, field))

(* main(): the play loop *)

\* an event that is not NewTurn is skipped and the next one awaited
TurnReceive_retry ==
    /\ pc = "turn"
    /\ net # NoMsg
    /\ IF net = Malformed THEN Terminate("TransportError") /\ ConsumeOnly
       ELSE IF net.event = "NewTurn"
            THEN pc' = "input" /\ reason' = reason /\ Consume("newturn")
       ELSE pc' = "turn" /\ reason' = reason /\ ConsumeOnly
    /\ UNCHANGED <<session, stdin, stdout, turn, prev, fvars>>

\* every event starts a turn
TurnReceive_lenient ==
    /\ pc = "turn"
    /\ net # NoMsg
    /\ IF net = Malformed THEN Terminate("TransportError") /\ ConsumeOnly
       ELSE pc' = "input" /\ reason' = reason
            /\ (IF net.event = "NewTurn" THEN Consume("newturn") ELSE ConsumeOnly)
    /\ UNCHANGED <<session, stdin, stdout, turn, prev, fvars>>

TurnReceive ==
    /\ pc = "turn"
    /\ net # NoMsg
    /\ IF net = Malformed THEN Terminate("TransportError") /\ ConsumeOnly
       ELSE IF net.event = "NewTurn"
            THEN pc' = "input" /\ reason' = reason /\ Consume("newturn")
       ELSE Terminate("ProtocolError") /\ ConsumeOnly
    /\ UNCHANGED <<session, stdin, stdout, turn, prev, fvars>>

HandleInput ==
    /\ pc = "input"
    /\ prev' = get_last_key_event(stdin)
    /\ stdin' = <<>>
    /\ direction' = handle_input_dir(prev', direction)
    /\ killed' = handle_input_killed(prev', killed)
    /\ hist' = [hist EXCEPT !.poll = @ + 1]
    /\ pc' = "killed"
    /\ UNCHANGED <<reason, id, snakes, food, field, stdout, net, turn, fvars>>

\* the kill flag is not looked at
CheckKilled_never ==
    /\ pc = "killed"
    /\ pc' = "send" /\ reason' = reason
    /\ UNCHANGED <<session, stdin, stdout, net, turn, prev, hist, fvars>>

CheckKilled ==
    /\ pc = "killed"
    /\ IF killed THEN Terminate("Quit") ELSE pc' = "send" /\ reason' = reason
    /\ UNCHANGED <<session, stdin, stdout, net, turn, prev, hist, fvars>>

\* the direction is sent only when a key was read this turn
SendDirection_oninput ==
    /\ pc = "send"
    /\ hist' = IF prev # None
               THEN [hist EXCEPT !.dir = @ + 1, !.lastNet = "Direction"]
               ELSE hist
    /\ pc' = "update_recv"
    /\ UNCHANGED <<reason, session, stdin, stdout, net, turn, prev, fvars>>

SendDirection ==
    /\ pc = "send"
    /\ hist' = [hist EXCEPT !.dir = @ + 1, !.lastNet = "Direction"]
    /\ pc' = "update_recv"
    /\ UNCHANGED <<reason, session, stdin, stdout, net, turn, prev, fvars>>

ReceiveTurn ==
    /\ pc = "update_recv"
    /\ net # NoMsg
    /\ net' = NoMsg
    /\ hist' = [hist EXCEPT !.recv = @ + 1, !.lastNet = NetKind(net),
                            !.held = Held(id, food, snakes)]
    /\ IF net = Malformed
       THEN Terminate("TransportError") /\ turn' = turn
       ELSE pc' = "apply" /\ reason' = reason /\ turn' = net
    /\ UNCHANGED <<session, stdin, stdout, prev, fvars>>

\* the whole TurnUpdate applied before the erase
ApplyIdFood_all ==
    /\ pc = "apply"
    /\ id' = turn.id
    /\ food' = turn.food
    /\ snakes' = update(turn.snakes)
    /\ pc' = "clear"
    /\ UNCHANGED <<reason, direction, field, killed, stdin, stdout,
                   net, turn, prev, hist, fvars>>

ApplyIdFood ==
    /\ pc = "apply"
    /\ id' = turn.id
    /\ food' = turn.food
    /\ pc' = "clear"
    /\ UNCHANGED <<reason, snakes, direction, field, killed, stdin, stdout,
                   net, turn, prev, hist, fvars>>

\* the erase done on the snakes of the TurnUpdate
ClearSnakes_new ==
    /\ pc = "clear"
    /\ hist' = [hist EXCEPT !.draw = @ + 1, !.erased = turn.snakes]
    /\ Draw("food", clear_snakes(stdout, turn.snakes, field))

ClearSnakes ==
    /\ pc = "clear"
    /\ hist' = [hist EXCEPT !.draw = @ + 1, !.erased = snakes]
    /\ Draw("food", clear_snakes(stdout, snakes, field))

DrawFood ==
    /\ pc = "food"
    /\ hist' = [hist EXCEPT !.draw = @ + 1]
    /\ Draw("update", draw_food(stdout, food))

Update ==
    /\ pc = "update"
    /\ snakes' = update(turn.snakes)
    /\ pc' = "snakes"
    /\ UNCHANGED <<reason, id, direction, food, field, killed, stdin, stdout,
                   net, turn, prev, hist, fvars>>

DrawSnakes ==
    /\ pc = "snakes"
    /\ hist' = [hist EXCEPT !.draw = @ + 1]
    /\ Draw("state", draw_snakes(stdout, snakes, id, field))

\* the next turn is started without waiting for its NewTurn
ReceiveState_nowait ==
    /\ pc = "state"
    /\ net # NoMsg
    /\ net' = NoMsg
    /\ hist' = [hist EXCEPT !.recv = @ + 1, !.lastNet = NetKind(net),
                            !.held = NoHeld]
    /\ IF net = Malformed THEN Terminate("TransportError") /\ stdout' = stdout
       ELSE IF net.state = "Lost"
            THEN Terminate("Lost") /\ stdout' = println(stdout, YouLose)
       ELSE pc' = "send" /\ reason' = reason /\ stdout' = stdout
    /\ turn' = NoMsg
    /\ UNCHANGED <<session, stdin, prev, fvars>>

\* the game ends on every state that is not Playing
ReceiveState_notplaying ==
    /\ pc = "state"
    /\ net # NoMsg
    /\ net' = NoMsg
    /\ hist' = [hist EXCEPT !.recv = @ + 1, !.lastNet = NetKind(net),
                            !.held = NoHeld]
    /\ IF net = Malformed THEN Terminate("TransportError") /\ stdout' = stdout
       ELSE IF net.state # "Playing"
            THEN Terminate("Lost") /\ stdout' = println(stdout, YouLose)
       ELSE pc' = "turn" /\ reason' = reason /\ stdout' = stdout
    /\ turn' = NoMsg
    /\ UNCHANGED <<session, stdin, prev, fvars>>

ReceiveState ==
    /\ pc = "state"
    /\ net # NoMsg
    /\ net' = NoMsg
    /\ hist' = [hist EXCEPT !.recv = @ + 1, !.lastNet = NetKind(net),
                            !.held = NoHeld]
    /\ IF net = Malformed THEN Terminate("TransportError") /\ stdout' = stdout
       ELSE IF net.state = "Lost"
            THEN Terminate("Lost") /\ stdout' = println(stdout, YouLose)
       ELSE pc' = "turn" /\ reason' = reason /\ stdout' = stdout
    /\ turn' = NoMsg
    /\ UNCHANGED <<session, stdin, prev, fvars>>

Main ==
    \/ LobbyReceive \/ LobbyVote
    \/ ReceiveConfig \/ InitDrawField \/ InitDrawFood \/ InitDrawSnakes
    \/ TurnReceive \/ HandleInput \/ CheckKilled \/ SendDirection
    \/ ReceiveTurn \/ ApplyIdFood \/ ClearSnakes \/ DrawFood \/ Update
    \/ DrawSnakes \/ ReceiveState

Next ==
    \/ ServerSend(Cfgs, Turns, MaxWaits, MaxTurns)
    \/ KeyPress(Keys)
    \/ LobbyReceive \/ LobbyVote
    \/ ReceiveConfig \/ InitDrawField \/ InitDrawFood \/ InitDrawSnakes
    \/ TurnReceive \/ HandleInput \/ CheckKilled \/ SendDirection
    \/ ReceiveTurn \/ ApplyIdFood \/ ClearSnakes \/ DrawFood \/ Update
    \/ DrawSnakes \/ ReceiveState

Spec == Init /\ [][Next]_vars

\* the first turn of a game with nobody at the keyboard, over DrawCfgs and
\* DrawTurns
NextDraw ==
    \/ ServerSend(DrawCfgs, DrawTurns, 0, 1)
    \/ LobbyReceive
    \/ ReceiveConfig \/ InitDrawField \/ InitDrawFood \/ InitDrawSnakes
    \/ TurnReceive \/ HandleInput \/ CheckKilled \/ SendDirection
    \/ ReceiveTurn \/ ApplyIdFood \/ ClearSnakes \/ DrawFood \/ Update
    \/ DrawSnakes \/ ReceiveState

SpecDraw == Init /\ [][NextDraw]_vars

\* init_field called on every pair of dimensions from 2 to MaxDim
InitField ==
    /\ GameEmpty
    /\ MainStart
    /\ stdin = <<>>
    /\ fw \in 2..MaxDim /\ fh \in 2..MaxDim /\ fout = <<>>

CallInitField ==
    /\ fout = <<>>
    /\ fout' = init_field(fw, fh)
    /\ UNCHANGED <<pc, reason, session, stdin, stdout, net, turn, prev, hist, fw, fh>>

SpecField == InitField /\ [][CallInitField]_vars

\* get_last_key_event called on every buffer of at most MaxBuf raw inputs
InitPoll ==
    /\ GameEmpty
    /\ MainStart
    /\ stdin \in SeqsOf(RawInputs, 0, MaxBuf)
    /\ fw = 0 /\ fh = 0 /\ fout = <<>>

CallGetLastKeyEvent ==
    /\ hist.poll = 0
    /\ prev' = get_last_key_event(stdin)
    /\ stdin' = <<>>
    /\ hist' = [hist EXCEPT !.poll = @ + 1, !.drained = stdin]
    /\ UNCHANGED <<pc, reason, session, stdout, net, turn, fvars>>

SpecPoll == InitPoll /\ [][CallGetLastKeyEvent]_vars

\* handle_input called up to MaxPolls times in a row on a fresh game, the
\* first time on every buffer of at most MaxBuf raw inputs
CallHandleInput ==
    /\ hist.poll < MaxPolls
    /\ prev' = get_last_key_event(stdin)
    /\ stdin' = <<>>
    /\ direction' = handle_input_dir(prev', direction)
    /\ killed' = handle_input_killed(prev', killed)
    /\ hist' = [hist EXCEPT !.poll = @ + 1, !.drained = stdin]
    /\ UNCHANGED <<pc, reason, id, snakes, food, field, stdout, net, turn, fvars>>

SpecInput == InitPoll /\ [][CallHandleInput]_vars

\* the first turn of a game whose user typed up to MaxBuf keys of TypedKeys
\* before the first poll
TypedKeys == {"q", "Up", "x", "Bad"}
NextKeys ==
    \/ ServerSend(Cfgs, Turns, 0, 1)
    \/ TypeKeys(TypedKeys)
    \/ LobbyReceive
    \/ ReceiveConfig \/ InitDrawField \/ InitDrawFood \/ InitDrawSnakes
    \/ TurnReceive \/ HandleInput \/ CheckKilled \/ SendDirection
    \/ ReceiveTurn \/ ApplyIdFood \/ ClearSnakes \/ DrawFood \/ Update
    \/ DrawSnakes \/ ReceiveState

SpecKeys == Init /\ [][NextKeys]_vars

\* main() keeps running, and the server always eventually writes the line
\* the client is blocked on: at most MaxWaits waits and MaxTurns turns, and
\* then a line that ends the loop
LiveKeys == {"q", "Up"}
ServerLive == ServerSend(Cfgs, Turns, MaxWaits, MaxTurns)
NextLive ==
    \/ ServerLive
    \/ KeyPress(LiveKeys)
    \/ LobbyReceive \/ LobbyVote
    \/ ReceiveConfig \/ InitDrawField \/ InitDrawFood \/ InitDrawSnakes
    \/ TurnReceive \/ HandleInput \/ CheckKilled \/ SendDirection
    \/ ReceiveTurn \/ ApplyIdFood \/ ClearSnakes \/ DrawFood \/ Update
    \/ DrawSnakes \/ ReceiveState

SpecLive == Init /\ [][NextLive]_vars /\ WF_vars(Main) /\ WF_vars(ServerLive)

TypeOK == pc \in {"lobby", "vote", "config", "draw_field", "draw_food",
                  "draw_snakes", "turn", "input", "killed", "send",
                  "update_recv", "apply", "clear", "food", "update", "snakes",
                  "state", "terminated"}

----------------------------------------------------------------------------
(* Properties of the turn synchroniser *)

LobbyPcs == {"lobby", "vote", "config", "draw_field", "draw_food", "draw_snakes"}
PlayPcs == {"turn", "input", "killed", "send", "update_recv", "apply", "clear",
            "food", "update", "snakes", "state"}

\* C1: in the lobby every Wait received is answered by exactly one
\* ForceStartVote (sent at the step that follows the Wait, whatever its
\* boolean), Start is answered by none, and Playing is entered exactly once:
\* never before the Start, and exactly once in every state of the play loop.
C1_VotePerWait ==
    /\ hist.vote = hist.wait - (IF pc = "vote" THEN 1 ELSE 0)
    /\ hist.start <= 1
    /\ pc \in LobbyPcs => hist.start = 0
    /\ pc \in PlayPcs => hist.start = 1

C1_Witness ==
    /\ pc = "turn"
    /\ hist.wait >= 2
    /\ hist.vote = hist.wait
    /\ hist.lastVote = FALSE
    /\ hist.start = 1

\* C2: a lobby event that is neither Wait nor Start ends main() with
\* ProtocolError at once, without a ForceStartVote for it; and a client that
\* ended so in the lobby has sent one vote per Wait and no DirectionReport,
\* has read no configuration and has drawn nothing.
C2_LobbyProtocolError ==
    [][/\ (pc = "lobby" /\ net.type = "Event" /\ net' = NoMsg
             /\ net.event \notin {"WaitInLobby", "Start"})
          => (pc' = "terminated" /\ reason' = "ProtocolError" /\ hist'.vote = hist.vote)
       /\ (reason' = "ProtocolError" /\ hist'.start = 0)
          => /\ pc' = "terminated"
             /\ hist'.vote = hist'.wait
             /\ hist'.dir = 0
             /\ hist'.draw = 0
             /\ field' = <<>>
             /\ hist'.recv = hist'.wait + 1]_vars

C2_Witness ==
    /\ reason = "ProtocolError"
    /\ hist.start = 0
    /\ hist.wait >= 1

\* C3: the DirectionReports sent number the NewTurn events received, less one
\* exactly while the turn's report is still to be sent (or was cut by a quit):
\* once the TurnUpdate is being read the turn's single report has been sent,
\* also when the direction did not change.
C3_OneDirectionPerTurn ==
    /\ hist.dir <= hist.newturn
    /\ hist.dir >= hist.newturn - 1
    /\ pc \in {"input", "killed", "send"} => hist.dir = hist.newturn - 1
    /\ pc \in {"turn", "update_recv", "apply", "clear", "food", "update",
               "snakes", "state"} => hist.dir = hist.newturn
    /\ (pc = "terminated" /\ reason # "Quit") => hist.dir = hist.newturn

C3_Witness ==
    /\ pc = "update_recv"
    /\ hist.newturn = 2
    /\ hist.dir = 2
    /\ hist.poll = hist.wait + 2
    /\ prev = None
    /\ direction = "Right"

\* C4: when the kill flag is found set after the poll of a turn, main() ends
\* with Quit at that step; it has then sent no DirectionReport for the turn
\* and has read nothing after the turn's NewTurn.
C4_QuitBeforeSend ==
    [][/\ (pc = "killed" /\ killed /\ pc' # pc)
          => (pc' = "terminated" /\ reason' = "Quit" /\ hist' = hist)
       /\ reason' = "Quit"
          => /\ pc' = "terminated"
             /\ killed'
             /\ hist'.dir = hist'.newturn - 1
             /\ hist'.recv = hist'.wait + 3 * hist'.newturn
             /\ turn' = NoMsg]_vars

C4_Witness ==
    /\ reason = "Quit"
    /\ hist.newturn = 2
    /\ hist.dir = 1

\* C5: reading a StateReport ends main() with Lost exactly when it is Lost;
\* Ready and Playing lead back to the wait for the next server event.
C5_LostEnds ==
    [][(pc = "state" /\ net.type = "State" /\ net' = NoMsg)
       => IF net.state = "Lost"
          THEN pc' = "terminated" /\ reason' = "Lost"
          ELSE pc' = "turn" /\ reason' = "none"]_vars

C5_Witness ==
    /\ reason = "Lost"
    /\ id = 1
    /\ Len(snakes) = 2
    /\ hist.newturn = 2

\* C6: once main() has ended, for whatever reason, the client does nothing
\* more: no receive, no send, no poll, no draw, no change of the session.
C6_TerminatedAbsorbing ==
    [][/\ reason # "none"
          => UNCHANGED <<pc, reason, hist, stdout, session, prev, turn>>
       /\ (reason' # "none") <=> (pc' = "terminated")]_vars

C6_Witness ==
    /\ pc = "terminated"
    /\ reason = "Quit"
    /\ hist.draw >= 6
    /\ stdin # <<>>

----------------------------------------------------------------------------
(* Properties of the renderer *)

CellOf(p) == <<p.x, p.y>>

\* the cells of the segments of one snake / of a snake set
SnakeCells(snake) == {CellOf(snake[j]) : j \in DOMAIN snake}
Occ(ss) == UNION {SnakeCells(ss[k]) : k \in DOMAIN ss}

Shown(c) == stdout.screen[c]
Glyph(c) == stdout.screen[c].ch

\* the outer ring of the field as drawn from the terminal's origin
Ring(fld) ==
    {c \in (1..Len(fld[1])) \X (1..Len(fld)) :
        c[1] \in {1, Len(fld[1])} \/ c[2] \in {1, Len(fld)}}

\* the snake drawn last on cell c (snakes are drawn in index order)
LastOn(ss, c) == CHOOSE k \in DOMAIN ss :
    /\ c \in SnakeCells(ss[k])
    /\ \A m \in DOMAIN ss : c \in SnakeCells(ss[m]) => m <= k

SnakeColour(own) == IF own THEN "Red" ELSE "Yellow"

TurnRedrawn == pc = "state"
FirstDrawn == pc = "turn" /\ hist.newturn = 0

\* C7 as stated: after a turn's redraw every cell of the erased snake set
\* that is not in the new one is blank, and every cell of the new snake set
\* shows the snake glyph.
C7_AsStated ==
    TurnRedrawn =>
        /\ \A c \in Occ(hist.erased) \ Occ(snakes) : Glyph(c) = BLANK
        /\ \A c \in Occ(snakes) : Glyph(c) = SNAKE_CHAR

\* C7 amended: after a turn's redraw every cell of the erased snake set that
\* is not in the new one is blank, unless it is the new food point, which
\* shows the food glyph; every cell of the new snake set, also one that was
\* in the erased set, shows the snake glyph.
C7_EraseThenDraw ==
    TurnRedrawn =>
        /\ \A c \in Occ(hist.erased) \ Occ(snakes) :
              Glyph(c) = IF c = CellOf(food) THEN FOOD_CHAR ELSE BLANK
        /\ \A c \in Occ(snakes) : Glyph(c) = SNAKE_CHAR

C7_Witness ==
    /\ TurnRedrawn
    /\ CellOf(food) \in Occ(hist.erased) \ Occ(snakes)
    /\ Occ(hist.erased) \cap Occ(snakes) # {}
    /\ \E c \in Occ(hist.erased) \ Occ(snakes) : c # CellOf(food)

\* C8 as stated: after the first draw the food point shows the food glyph,
\* every snake segment the snake glyph in its snake's colour, every cell of
\* the outer ring the border glyph.
C8_AsStated ==
    FirstDrawn =>
        /\ Glyph(CellOf(food)) = FOOD_CHAR
        /\ \A k \in DOMAIN snakes : \A c \in SnakeCells(snakes[k]) :
              Shown(c) = [ch |-> SNAKE_CHAR, fg |-> SnakeColour(k - 1 = id)]
        /\ \A c \in Ring(field) : Glyph(c) = BORDER_CHAR

\* C8 amended: after the first draw the food point shows the food glyph
\* unless a snake segment lies on it; every snake segment shows the snake
\* glyph, in the colour of the last snake of the configuration that has a
\* segment on that cell (self colour when its index is id, opponent colour
\* otherwise); every cell of the outer ring that holds neither the food nor
\* a snake segment shows the border glyph.
C8_FirstDraw ==
    FirstDrawn =>
        /\ CellOf(food) \notin Occ(snakes) => Glyph(CellOf(food)) = FOOD_CHAR
        /\ \A c \in Occ(snakes) :
              Shown(c) = [ch |-> SNAKE_CHAR,
                          fg |-> SnakeColour(LastOn(snakes, c) - 1 = id)]
        /\ \A c \in Ring(field) \ (Occ(snakes) \cup {CellOf(food)}) :
              Glyph(c) = BORDER_CHAR

C8_Witness ==
    /\ FirstDrawn
    /\ id = 0
    /\ Len(snakes) = 2
    /\ CellOf(food) \in SnakeCells(snakes[2])
    /\ SnakeCells(snakes[1]) \cap SnakeCells(snakes[2]) # {}

----------------------------------------------------------------------------
(* Properties of the field model and of the input poller *)

\* C9: for width, height >= 2 init_field returns height rows of width cells,
\* with the border glyph on the first and last row and column and the empty
\* glyph everywhere else.
C9_FieldShape ==
    fout # <<>> =>
        /\ Len(fout) = fh
        /\ \A r \in 1..fh :
              /\ Len(fout[r]) = fw
              /\ \A c \in 1..fw :
                    fout[r][c] = IF r \in {1, fh} \/ c \in {1, fw}
                                 THEN BORDER_CHAR ELSE BLANK

C9_Witness ==
    /\ fout # <<>>
    /\ fw = 2
    /\ fh = 5

IsEvent(b) == parse_event(b).ok

\* C10: a poll returns none when the buffer holds no event, and otherwise
\* the last of the events buffered; it leaves the buffer empty.
C10_PollLast ==
    hist.poll > 0 =>
        LET evs == SelectSeq(hist.drained, IsEvent)
        IN  /\ stdin = <<>>
            /\ prev = IF evs = <<>> THEN None ELSE parse_event(evs[Len(evs)]).ev

C10_Witness ==
    /\ hist.poll > 0
    /\ hist.drained = <<"Up", "q", "Left">>
    /\ prev = [kind |-> "Key", key |-> "Left"]

----------------------------------------------------------------------------
(* Properties of play-mode input *)

Arrows == {"Up", "Down", "Left", "Right"}

\* the events among raw inputs, in order
EventsOf(buf) == SelectSeq(buf, IsEvent)

IsArrow(b) == b \in Arrows
ArrowsOf(buf) == SelectSeq(buf, IsArrow)

\* the last accepted event of a buffer is the key k
LastIs(buf, k) ==
    /\ EventsOf(buf) # <<>>
    /\ EventsOf(buf)[Len(EventsOf(buf))] = k

\* C11: a play-mode poll that finds no input buffered leaves direction, kill
\* flag, id, food and snakes as they are, however often it is repeated.
C11_EmptyPollKeeps ==
    [][(hist'.poll = hist.poll + 1 /\ stdin = <<>>)
       => UNCHANGED <<direction, killed, id, food, snakes>>]_vars

C11_Witness ==
    /\ hist.poll = MaxPolls
    /\ hist.drained = <<>>
    /\ direction = "Left"
    /\ stdin = <<>>

\* C16 as stated: after a play-mode poll the direction is that of the last
\* arrow key buffered, whatever was buffered around it, and is unchanged
\* when no arrow key was buffered.
C16_AsStated ==
    [][hist'.poll = hist.poll + 1
       => direction' = IF ArrowsOf(stdin) = <<>> THEN direction
                       ELSE ArrowsOf(stdin)[Len(ArrowsOf(stdin))]]_vars

\* C16 amended: after a play-mode poll the direction is that of the last
\* event buffered when this event is an arrow key, whatever was buffered
\* before it; in every other case (no event, or a last event that is not an
\* arrow key, also after an arrow key) the direction is unchanged.
C16_LastEventDecides ==
    [][hist'.poll = hist.poll + 1
       => direction' = IF \E a \in Arrows : LastIs(stdin, a)
                       THEN EventsOf(stdin)[Len(EventsOf(stdin))]
                       ELSE direction]_vars

C16_Witness ==
    /\ hist.poll = 1
    /\ hist.drained = <<"Up", "x">>
    /\ direction = "Right"

----------------------------------------------------------------------------
(* Properties of the turn cycle and of what it leaves on the terminal *)

\* Goto(0, field.len() + 1): the first column of the row below the field
Parked == <<1, Len(field) + 1>>

\* C12 as stated: once the renderer has been called, and until the final
\* message is printed, the cursor is at the parked position.
C12_AsStated ==
    (hist.draw > 0 /\ reason # "Lost") => stdout.cur = Parked

\* C13: in the play loop an event that is not NewTurn ends main() at once:
\* no poll, no DirectionReport, nothing erased or drawn.
C13_PlayProtocolError ==
    [][(pc = "turn" /\ net.type = "Event" /\ net' = NoMsg /\ net.event # "NewTurn")
       => /\ pc' = "terminated"
          /\ reason' = "ProtocolError"
          /\ hist'.poll = hist.poll
          /\ hist'.dir = hist.dir
          /\ hist'.draw = hist.draw
          /\ stdout' = stdout
          /\ stdin' = stdin]_vars

C13_Witness ==
    /\ reason = "ProtocolError"
    /\ hist.lastNet \in {"WaitInLobby", "Start"}
    /\ hist.newturn >= 1
    /\ stdin # <<>>

\* C14: in a turn nothing is drawn before the erase; the erase is done on the
\* snake set the session held when the TurnUpdate was read, and the food draw
\* and the snake draw follow it in this order.
C14_EraseFirst ==
    /\ pc \in {"input", "killed", "send", "update_recv", "apply", "clear"}
          => hist.draw = 3 * hist.newturn
    /\ pc \in {"apply", "clear"} => snakes = hist.held.snakes
    /\ pc = "food" => (hist.draw = 3 * hist.newturn + 1 /\ hist.erased = hist.held.snakes)
    /\ pc \in {"update", "snakes"}
          => (hist.draw = 3 * hist.newturn + 2 /\ hist.erased = hist.held.snakes)
    /\ pc = "state" => hist.draw = 3 * hist.newturn + 3

C14_Witness ==
    /\ pc = "update"
    /\ hist.erased = hist.held.snakes
    /\ Len(hist.erased) = 2
    /\ turn.snakes # hist.erased

\* C15 as stated: until the erase is done id, food and snakes are those held
\* before the TurnUpdate, and once the food is redrawn id, food and snakes
\* are those of the TurnUpdate.
C15_AsStated ==
    /\ pc \in {"apply", "clear"} => Held(id, food, snakes) = hist.held
    /\ pc \in {"update", "snakes", "state"}
          => Held(id, food, snakes) = Held(turn.id, turn.food, turn.snakes)

\* C15 amended: the snake set is not changed before the erase, but the new
\* id and food are applied before it; the food redraw follows the erase with
\* the new id and food applied and the old snake set still in place; the
\* snake redraw happens only after id, food and snake set have all been
\* applied.
C15_InterleavedOrder ==
    /\ pc = "apply" => Held(id, food, snakes) = hist.held
    /\ pc \in {"clear", "food", "update"}
          => Held(id, food, snakes) = Held(turn.id, turn.food, hist.held.snakes)
    /\ pc \in {"snakes", "state"}
          => Held(id, food, snakes) = Held(turn.id, turn.food, turn.snakes)
    /\ pc \in {"food", "update", "snakes"} => hist.erased = hist.held.snakes

C15_Witness ==
    /\ pc = "update"
    /\ id # hist.held.id
    /\ food # hist.held.food
    /\ snakes = hist.held.snakes
    /\ snakes # turn.snakes

\* C18 as stated: after a turn's redraw no cell but the session's food point
\* shows the food glyph.
C18_AsStated ==
    TurnRedrawn => \A c \in Cells : Glyph(c) = FOOD_CHAR => c = CellOf(food)

\* C17 as stated: a poll of the play loop that finds the quit key among the
\* buffered events sets the kill flag.
C17_AsStated ==
    [][(pc = "input" /\ pc' = "killed" /\ \E i \in 1..Len(stdin) : stdin[i] = "q")
       => killed']_vars

\* C17 amended: a poll of the play loop sets the kill flag exactly when the
\* quit key is the last event buffered (a quit key followed by another key
\* event is discarded), and with the flag set the only step of main() is to
\* Terminated(Quit), in the same turn and with nothing sent.
C17_LastQuitKills ==
    [][/\ (pc = "input" /\ pc' = "killed") => (killed' <=> LastIs(stdin, "q"))
       /\ (pc = "killed" /\ killed /\ pc' # pc)
             => /\ pc' = "terminated"
                /\ reason' = "Quit"
                /\ hist'.newturn = hist.newturn
                /\ hist'.dir = hist.dir
       /\ (pc = "killed" /\ pc' = "send") => ~killed]_vars

C17_Witness ==
    /\ reason = "Quit"
    /\ hist.newturn = 1
    /\ hist.dir = 0
    /\ hist.typed = <<"x", "q", "Bad">>

\* C19: a ForceStartVote is sent only directly after a Wait was received and
\* a DirectionReport only directly after a NewTurn was received, so never two
\* sends in a row; in a turn the TurnUpdate is read directly after the
\* DirectionReport was sent, the StateReport directly after the TurnUpdate,
\* and the event of a turn directly after the Configuration or a StateReport.
C19_SendAfterReceive ==
    [][/\ hist'.vote = hist.vote + 1 => hist.lastNet = "WaitInLobby"
       /\ hist'.dir = hist.dir + 1 => hist.lastNet = "NewTurn"
       /\ hist'.recv = hist.recv + 1 =>
             /\ pc = "lobby" => hist.lastNet \in {"none", "Vote"}
             /\ pc = "config" => hist.lastNet = "Start"
             /\ pc = "turn" => hist.lastNet \in {"Config", "State"}
             /\ pc = "update_recv" => hist.lastNet = "Direction"
             /\ pc = "state" => hist.lastNet = "Turn"]_vars

C19_Witness ==
    /\ pc = "update_recv"
    /\ hist.lastNet = "Direction"
    /\ hist.dir = 2
    /\ hist.vote = 2

\* main() is blocked in a receive()
Blocked == net = NoMsg /\ pc \in {"lobby", "config", "turn", "update_recv", "state"}

\* C20: at the head of the lobby loop and of the play loop every past
\* iteration has consumed its server messages (one per lobby iteration,
\* three per turn); blocked in a receive main() has no step, whatever is in
\* the keyboard buffer; and with a server that keeps writing the awaited
\* line main() eventually terminates.
C20_Terminates ==
    /\ [](pc = "lobby" => hist.recv = hist.wait)
    /\ [](pc = "turn" => hist.recv = hist.wait + 2 + 3 * hist.newturn)
    /\ [](Blocked => ~ENABLED Main)
    /\ <>(pc = "terminated")

C20_Witness ==
    /\ pc = "terminated"
    /\ reason \in {"Lost", "ProtocolError"}
    /\ hist.wait >= 1
    /\ hist.newturn >= 1
    /\ stdin = <<"q">>

====
